---- MODULE Spec2Model ----
(***************************************************************************)
(* DocKubeADT: translation of a single-service compose descriptor or a set *)
(* of Kubernetes manifests into a MiCADO ADT (src/dockubeadt).             *)
(*                                                                         *)
(* Python strings that the code lower-cases, sanitises or splits are       *)
(* sequences of one-character strings; every other string is atomic.       *)
(* An optional dict key is a sequence of length 0 (absent) or 1 (present). *)
(* A dict that the code keeps ordered (node_templates) is a sequence of    *)
(* [key, val] entries.                                                     *)
(***************************************************************************)
EXTENDS Integers, Sequences, FiniteSets, TLC

VARIABLES
    pc,                 \* position of the running call
    entry,              \* entry point of the running call
    run,                \* 1: the call; 2: its output fed back through translate_manifest
    error,              \* exception that ended the call ("none" when none)
    input,              \* the manifest list as translate_manifest received it
    manifests,          \* the manifest list (the transform mutates it in place)
    propagation,        \* propagation hints
    configuration_data, \* configuration entries
    node_templates,     \* adt["node_templates"], an ordered mapping
    first,              \* node_templates of run 1, kept when the output is fed back
    compose,            \* the compose unit: an ordered mapping of services
    tmp_exists,         \* the staged descriptor (NamedTemporaryFile) exists
    out_exists,         \* the staged output {service}.yaml exists in the cwd
    out_content,        \* manifests the converter wrote to the staged output
    status,             \* converter's return code
    kompose_runs,       \* number of converter invocations
    staged_writes,      \* number of staged descriptors written
    adt_built,          \* translate_manifest created the adt of the running call
    adt_written,        \* the CLI wrote adt-micado.yaml
    exit_code           \* the CLI's exit code (-1 while running)

vars == <<pc, entry, run, error, input, manifests, propagation, configuration_data,
          node_templates, first, compose, tmp_exists, out_exists, out_content,
          status, kompose_runs, staged_writes, adt_built, adt_written, exit_code>>

\* ------------------------------------------------------------------ bounds
MaxDocs == 2
MaxConf == 2
MaxHints == 2
MaxMounts == 2
MaxContainers == 2
MaxServices == 2

\* ----------------------------------------------------------------- strings
Uppers == <<"A","B","C","D","E","F","G","H","I","J","K","L","M",
            "N","O","P","Q","R","S","T","U","V","W","X","Y","Z">>
Lowers == <<"a","b","c","d","e","f","g","h","i","j","k","l","m",
            "n","o","p","q","r","s","t","u","v","w","x","y","z">>

LowerChar(c) ==
    IF \E i \in 1..Len(Uppers) : Uppers[i] = c
    THEN Lowers[CHOOSE i \in 1..Len(Uppers) : Uppers[i] = c]
    ELSE c

\* str.lower()
Lower(s) == [i \in 1..Len(s) |-> LowerChar(s[i])]

\* str.replace(a, b) for one-character a and b
Replace(s, a, b) == [i \in 1..Len(s) |-> IF s[i] = a THEN b ELSE s[i]]

\* .lower().replace(".", "-").replace("_", "-").replace(" ", "-")
Sanitize(s) == Replace(Replace(Replace(Lower(s), ".", "-"), "_", "-"), " ", "-")

\* index of the last "/" of s, 0 when there is none
LastSlash(s) ==
    IF \E i \in 1..Len(s) : s[i] = "/"
    THEN CHOOSE i \in 1..Len(s) : s[i] = "/" /\ \A j \in (i+1)..Len(s) : s[j] # "/"
    ELSE 0

\* os.path.basename(p): what follows the last "/"
OsBasename(p) == SubSeq(p, LastSlash(p) + 1, Len(p))

\* pathlib drops trailing "/" and trailing "." components before taking the name
RECURSIVE StripTail(_)
StripTail(p) ==
    IF Len(p) = 0 THEN p
    ELSE IF p[Len(p)] = "/" THEN StripTail(SubSeq(p, 1, Len(p) - 1))
    ELSE IF p[Len(p)] = "." /\ Len(p) >= 2 /\ p[Len(p) - 1] = "/"
         THEN StripTail(SubSeq(p, 1, Len(p) - 1))
    ELSE IF p = <<".">> THEN <<>>
    ELSE p

\* Path(p).name
PathName(p) == OsBasename(StripTail(p))

\* ------------------------------------------------------------- optional keys
Absent == <<>>
Some(x) == <<x>>
Has(o) == Len(o) = 1
Get(o) == o[1]

\* ------------------------------------------------------- ordered mapping
Keys(m) == {m[i].key : i \in 1..Len(m)}
IndexOf(m, k) == CHOOSE i \in 1..Len(m) : m[i].key = k
Lookup(m, k) == m[IndexOf(m, k)].val
\* m[k] = v on a dict: an existing key keeps its place, a new key goes last
Put(m, k, v) ==
    IF k \in Keys(m)
    THEN [m EXCEPT ![IndexOf(m, k)] = [key |-> k, val |-> v]]
    ELSE Append(m, [key |-> k, val |-> v])

\* ------------------------------------------------------------ program data
\* translator.py:14
WORKLOADS == << <<"d","e","p","l","o","y","m","e","n","t">>,
                <<"p","o","d">>,
                <<"s","t","a","t","e","f","u","l","s","e","t">>,
                <<"d","a","e","m","o","n","s","e","t">> >>

InWorkloads(kind) == \E i \in 1..Len(WORKLOADS) : WORKLOADS[i] = kind

KubernetesType == "tosca.nodes.MiCADO.Kubernetes"
ConfigType == "tosca.nodes.MiCADO.Container.Config.Kubernetes"

\* Python's None as a propagation hint
PyNone == "<None>"
\* `not prop` is true of None and of the empty string
Truthy(prop) == prop # PyNone /\ prop # ""

\* A manifest is
\*   [kind, metadata: [name, annotations?, creationTimestamp?], spec?, status?]
\* a spec (and a pod template's spec) is
\*   [replicas?, containers?, volumes?, template?]
\* a template is [metadata: [annotations?, creationTimestamp?], spec]
\* a container is [image?, volumeMounts?]
\* a mount is [name, mountPath, subPath?, mountPropagation?]
\* a volume is [name, configMap?, hostPath?]
\* `not container` is true of a container without keys
IsEmptyContainer(container) == ~Has(container.image) /\ ~Has(container.volumeMounts)

IsEmptyMap(spec) ==
    ~Has(spec.replicas) /\ ~Has(spec.containers) /\ ~Has(spec.volumes) /\ ~Has(spec.template)

\* ------------------------------------------------------------ translate_dict
PropagationMapping(p) ==
    IF p = "rshared" THEN "Bidirectional"
    ELSE IF p = "rslave" THEN "HostToContainer"
    ELSE PyNone

\* A compose volume is [isMapping, bind?]; a bind is [isMapping, propagation?].
\* volume["bind"]["propagation"] raises TypeError on a short-syntax string or a
\* non-mapping bind and KeyError on a missing key; mapping[...] raises KeyError on
\* any other mode: all are caught and give None.
get_propagation(volume) ==
    IF ~volume.isMapping THEN PyNone
    ELSE IF ~Has(volume.bind) THEN PyNone
    ELSE IF ~Get(volume.bind).isMapping THEN PyNone
    ELSE IF ~Has(Get(volume.bind).propagation) THEN PyNone
    ELSE PropagationMapping(Get(Get(volume.bind).propagation))

\* container.get("volumes", []) walked in order
check_bind_propagation(container) ==
    IF ~Has(container.volumes) THEN <<>>
    ELSE [i \in 1..Len(Get(container.volumes)) |-> get_propagation(Get(container.volumes)[i])]

\* get_container_from_compose without its check of the number of services
get_container_from_compose_NoCheck(services) ==
    IF Len(services) = 0 THEN [exc |-> "IndexError", name |-> ""]
    ELSE [exc |-> "none", name |-> services[1].key]

\* [exc, name]: ValueError on more than one service, IndexError on none
get_container_from_compose(services) ==
    IF Len(services) > 1 THEN [exc |-> "ValueError", name |-> ""]
    ELSE IF Len(services) = 0 THEN [exc |-> "IndexError", name |-> ""]
    ELSE [exc |-> "none", name |-> services[1].key]

\* -------------------------------------------------------- translate_manifest
\* count_workloads comparing the kind as written, without lower()
count_workloads_CaseSensitive(ms) ==
    Cardinality({i \in 1..Len(ms) : InWorkloads(ms[i].kind)})

count_workloads(ms) ==
    Cardinality({i \in 1..Len(ms) : InWorkloads(Lower(ms[i].kind))})

ConfigNodeName(conf) == Sanitize(PathName(conf.file_path))

ConfigNode(conf) ==
    [type |-> ConfigType,
     inputs |-> Absent,
     data |-> Some([key |-> PathName(conf.file_path), val |-> conf.file_content])]

RECURSIVE AddConfigdataFrom(_, _, _)
AddConfigdataFrom(confs, i, nt) ==
    IF i > Len(confs) THEN nt
    ELSE AddConfigdataFrom(confs, i + 1, Put(nt, ConfigNodeName(confs[i]), ConfigNode(confs[i])))

_add_configdata(confs, nt) == AddConfigdataFrom(confs, 1, nt)

_to_node(manifest) ==
    [type |-> KubernetesType, inputs |-> Some(manifest), data |-> Absent]

\* the node name with the metadata name as written, without lower()
NodeName_KeepCase(manifest) == manifest.metadata.name \o <<"-">> \o Lower(manifest.kind)

NodeName(manifest) == Lower(manifest.metadata.name) \o <<"-">> \o Lower(manifest.kind)

\* [exc, found, path]: found is FALSE where the code returns None; path says
\* whether the returned spec is manifest.spec or manifest.spec.template.spec
get_spec_container_from_manifest(manifest) ==
    IF ~Has(manifest.spec) \/ IsEmptyMap(Get(manifest.spec))
    THEN [exc |-> "none", found |-> FALSE, path |-> "spec"]
    ELSE LET spec0 == Get(manifest.spec) IN
         IF ~Has(spec0.containers)
         THEN IF ~Has(spec0.template)
              THEN [exc |-> "KeyError", found |-> FALSE, path |-> "template"]
              ELSE LET inner == Get(spec0.template).spec IN
                   IF Has(inner.containers) /\ Len(Get(inner.containers)) > 0
                   THEN [exc |-> "none", found |-> TRUE, path |-> "template"]
                   ELSE [exc |-> "none", found |-> FALSE, path |-> "template"]
         ELSE IF Len(Get(spec0.containers)) > 0
              THEN [exc |-> "none", found |-> TRUE, path |-> "spec"]
              ELSE [exc |-> "none", found |-> FALSE, path |-> "spec"]

\* _update_propagation without `if not prop: continue`
_update_propagation_NoSkip(container, props) ==
    IF ~Has(container.volumeMounts) THEN container
    ELSE LET vm == Get(container.volumeMounts) IN
         [container EXCEPT !.volumeMounts =
            Some([i \in 1..Len(vm) |->
                    IF i <= Len(props)
                    THEN [vm[i] EXCEPT !.mountPropagation = Some(props[i])]
                    ELSE vm[i]])]

\* zip(propagation, vol_mounts): the shorter sequence ends the walk
_update_propagation(container, props) ==
    IF ~Has(container.volumeMounts) THEN container
    ELSE LET vm == Get(container.volumeMounts) IN
         [container EXCEPT !.volumeMounts =
            Some([i \in 1..Len(vm) |->
                    IF i <= Len(props) /\ Truthy(props[i])
                    THEN [vm[i] EXCEPT !.mountPropagation = Some(props[i])]
                    ELSE vm[i]])]

ConfigVolume(conf) ==
    [name |-> ConfigNodeName(conf),
     configMap |-> Some([name |-> ConfigNodeName(conf)]),
     hostPath |-> Absent]

ConfigMount(conf) ==
    [name |-> ConfigNodeName(conf),
     mountPath |-> conf.file_path,
     subPath |-> Some(OsBasename(conf.file_path)),
     mountPropagation |-> Absent]

SetDefault(o) == IF Has(o) THEN Get(o) ELSE <<>>

\* the spec with its volumes extended and its first container's mounts extended
_update_configmaps(spec, container, confs) ==
    LET volumes == SetDefault(spec.volumes) \o [i \in 1..Len(confs) |-> ConfigVolume(confs[i])]
        mounts == SetDefault(container.volumeMounts) \o [i \in 1..Len(confs) |-> ConfigMount(confs[i])]
        c2 == [container EXCEPT !.volumeMounts = Some(mounts)]
    IN [spec EXCEPT !.volumes = Some(volumes),
                    !.containers = Some([Get(spec.containers) EXCEPT ![1] = c2])]

\* the container get_spec_container_from_manifest returns
FoundContainer(manifest, path) ==
    IF path = "spec" THEN Get(Get(manifest.spec).containers)[1]
    ELSE Get(Get(Get(manifest.spec).template).spec.containers)[1]

\* the workload branch of the loop body once a container was found at path:
\* the manifest with its hints applied and its configuration mounts added
UpdateWorkload(manifest, path, props, confs) ==
    LET spec0 == Get(manifest.spec)
        spec == IF path = "spec" THEN spec0 ELSE Get(spec0.template).spec
        c1 == _update_propagation(Get(spec.containers)[1], props)
        spec1 == [spec EXCEPT !.containers = Some([Get(spec.containers) EXCEPT ![1] = c1])]
        spec2 == _update_configmaps(spec1, c1, confs)
    IN IF path = "spec"
       THEN [manifest EXCEPT !.spec = Some(spec2)]
       ELSE [manifest EXCEPT !.spec =
               Some([spec0 EXCEPT !.template =
                       Some([Get(spec0.template) EXCEPT !.spec = spec2])])]

\* the loop body writing the node name back into the manifest's metadata.name
TransformOne_Rename(manifest, props, confs) ==
    LET renamed == [manifest EXCEPT !.metadata.name =
                       Lower(manifest.metadata.name) \o <<"-">> \o Lower(manifest.kind)]
    IN IF ~InWorkloads(Lower(manifest.kind))
       THEN [exc |-> "none", emit |-> TRUE, doc |-> renamed]
       ELSE LET r == get_spec_container_from_manifest(manifest) IN
            IF r.exc # "none" THEN [exc |-> r.exc, emit |-> FALSE, doc |-> manifest]
            ELSE IF ~r.found THEN [exc |-> "TypeError", emit |-> FALSE, doc |-> manifest]
            ELSE IF IsEmptyContainer(FoundContainer(manifest, r.path))
            THEN [exc |-> "none", emit |-> FALSE, doc |-> manifest]
            ELSE [exc |-> "none", emit |-> TRUE,
                  doc |-> UpdateWorkload(renamed, r.path, props, confs)]

\* The body of _transform's loop for one manifest: [exc, emit, doc].
\* `spec, container = None` raises TypeError; an empty container is skipped by
\* `if not container: continue`, and its manifest is not emitted.
TransformOne(manifest, props, confs) ==
    IF ~InWorkloads(Lower(manifest.kind))
    THEN [exc |-> "none", emit |-> TRUE, doc |-> manifest]
    ELSE LET r == get_spec_container_from_manifest(manifest) IN
         IF r.exc # "none" THEN [exc |-> r.exc, emit |-> FALSE, doc |-> manifest]
         ELSE IF ~r.found THEN [exc |-> "TypeError", emit |-> FALSE, doc |-> manifest]
         ELSE IF IsEmptyContainer(FoundContainer(manifest, r.path))
         THEN [exc |-> "none", emit |-> FALSE, doc |-> manifest]
         ELSE [exc |-> "none", emit |-> TRUE,
               doc |-> UpdateWorkload(manifest, r.path, props, confs)]

\* _transform: the loop stops at the first exception, keeping what it did so far
RECURSIVE TransformFrom(_, _, _, _, _)
TransformFrom(ms, i, nt, props, confs) ==
    IF i > Len(ms) THEN [exc |-> "none", ms |-> ms, nt |-> nt]
    ELSE LET r == TransformOne(ms[i], props, confs) IN
         IF r.exc # "none" THEN [exc |-> r.exc, ms |-> ms, nt |-> nt]
         ELSE TransformFrom([ms EXCEPT ![i] = r.doc], i + 1,
                            IF r.emit THEN Put(nt, NodeName(ms[i]), _to_node(r.doc)) ELSE nt,
                            props, confs)

_transform(ms, nt, props, confs) == TransformFrom(ms, 1, nt, props, confs)

\* ------------------------------------------------------------------ inputs
SeqsUpTo(S, n) == UNION {[1..k -> S] : k \in 0..n}

Digits == <<"1","2","3","4","5","6","7","8","9">>

Pod == <<"P","o","d">>
Deployment == <<"D","e","p","l","o","y","m","e","n","t">>
DaemonSet == <<"D","a","e","m","o","n","S","e","t">>
Service == <<"S","e","r","v","i","c","e">>
Kinds == {Pod, Deployment, DaemonSet, Service}

NameWeb == <<"W","e","b">>
Nameweb == <<"w","e","b">>
NameMyPod == <<"m","y","-","p","o","d","-","n","a","m","e">>
Names == {NameWeb, Nameweb}

EmptySpec == [replicas |-> Absent, containers |-> Absent, volumes |-> Absent, template |-> Absent]
PlainContainer(image) == [image |-> Some(image), volumeMounts |-> Absent]
EmptyContainer == [image |-> Absent, volumeMounts |-> Absent]

Doc(kind, name, spec, extra) ==
    [kind |-> kind,
     metadata |-> [name |-> name,
                   annotations |-> IF extra THEN Some("kompose.cmd") ELSE Absent,
                   creationTimestamp |-> IF extra THEN Some("null") ELSE Absent],
     spec |-> spec,
     status |-> IF extra THEN Some("loadBalancer") ELSE Absent]

\* what a manifest of this kind minimally carries
SimpleSpec(kind) ==
    IF kind = Service THEN Some([EmptySpec EXCEPT !.replicas = Some(1)])
    ELSE IF kind = Pod THEN Some([EmptySpec EXCEPT !.containers = Some(<<PlainContainer("busybox")>>)])
    ELSE Some([EmptySpec EXCEPT !.replicas = Some(1),
                 !.template = Some([metadata |-> [annotations |-> Absent, creationTimestamp |-> Absent],
                                    spec |-> [EmptySpec EXCEPT !.containers = Some(<<PlainContainer("busybox")>>)]])])

SimpleDocs == {Doc(k, n, SimpleSpec(k), FALSE) : k \in Kinds, n \in Names}

\* mount lists of a container: absent, or MaxMounts at most, each with or without a
\* mountPropagation of its own
PresetMount(i, preset) ==
    [name |-> <<"v","o","l",Digits[i]>>,
     mountPath |-> <<"/","m",Digits[i]>>,
     subPath |-> Absent,
     mountPropagation |-> IF preset THEN Some("None") ELSE Absent]

MountLists ==
    {Absent} \cup {Some([i \in 1..Len(f) |-> PresetMount(i, f[i])]) : f \in SeqsUpTo(BOOLEAN, MaxMounts)}

HostVolumes(mounts) ==
    IF ~Has(mounts) THEN Absent
    ELSE Some([i \in 1..Len(Get(mounts)) |->
                 [name |-> Get(mounts)[i].name, configMap |-> Absent,
                  hostPath |-> Some([path |-> Get(mounts)[i].mountPath])]])

\* n containers, the first with the mounts
PodSpec(n, mounts) ==
    [EmptySpec EXCEPT
        !.containers = Some([i \in 1..n |->
            IF i = 1 THEN [image |-> Some("app"), volumeMounts |-> mounts] ELSE PlainContainer("sidecar")]),
        !.volumes = HostVolumes(mounts)]

TemplateSpec(inner, extra) ==
    [EmptySpec EXCEPT
        !.replicas = Some(1),
        !.template = Some([metadata |-> [annotations |-> IF extra THEN Some("kompose.cmd") ELSE Absent,
                                         creationTimestamp |-> IF extra THEN Some("null") ELSE Absent],
                           spec |-> inner])]

OneMount == Some(<<PresetMount(1, FALSE)>>)

\* container lists: one container with any mount list, or several with one mount
ContainerShapes ==
    {[n |-> 1, mounts |-> ml] : ml \in MountLists}
    \cup {[n |-> n, mounts |-> OneMount] : n \in 2..MaxContainers}

\* workloads whose spec yields a container, directly or through the pod template
ContainerWorkloads(extra) ==
    {Doc(Pod, Nameweb, Some(PodSpec(c.n, c.mounts)), extra) : c \in ContainerShapes}
    \cup {Doc(Deployment, NameWeb, Some(TemplateSpec(PodSpec(c.n, c.mounts), extra)), extra) :
              c \in ContainerShapes}

\* workloads whose spec yields none: spec missing, empty, without containers and
\* template, with an empty container list, with a template that has no containers;
\* and one whose first container is an empty mapping
BareWorkloads(extra) ==
    {Doc(Pod, Nameweb, Absent, extra),
     Doc(Pod, Nameweb, Some(EmptySpec), extra),
     Doc(Deployment, NameWeb, Some([EmptySpec EXCEPT !.replicas = Some(1)]), extra),
     Doc(Pod, Nameweb, Some([EmptySpec EXCEPT !.containers = Some(<<>>)]), extra),
     Doc(Deployment, NameWeb, Some(TemplateSpec(EmptySpec, extra)), extra),
     Doc(Pod, Nameweb, Some([EmptySpec EXCEPT !.containers = Some(<<EmptyContainer>>)]), extra)}

ServiceWithStatus == Doc(Service, Nameweb, SimpleSpec(Service), TRUE)

\* workloads that carry cluster bookkeeping (annotations, creationTimestamp, status)
BookkeptWorkloads ==
    {Doc(Pod, Nameweb, Some(PodSpec(1, OneMount)), TRUE),
     Doc(Deployment, NameWeb, Some(TemplateSpec(PodSpec(1, OneMount), TRUE)), TRUE),
     Doc(Deployment, NameWeb, Some(TemplateSpec(PodSpec(1, Absent), TRUE)), TRUE)}

\* one workload, alone or (when it carries cluster bookkeeping) after a Service
WorkloadSets ==
    {<<w>> : w \in ContainerWorkloads(FALSE) \cup BareWorkloads(FALSE)}
    \cup {<<ServiceWithStatus, w>> : w \in BookkeptWorkloads}

PathConfigJson == <<"/","e","t","c","/","a","p","p","/","c","o","n","f","i","g",".","j","s","o","n">>
PathMyFile == <<"/","d","/","M","y","_","F","i","l","e"," ","1",".","T","X","T">>
PathDir == <<"/","e","t","c","/","a","p","p","/">>
PathWebService == <<"/","w","e","b","-","s","e","r","v","i","c","e">>

Conf(path) == [file_path |-> path, file_content |-> "content"]
Confs == {Conf(PathConfigJson), Conf(PathMyFile), Conf(PathDir)}

HintValues == {PyNone, "Bidirectional", "HostToContainer"}
FixedHints == <<PyNone, "HostToContainer", "Bidirectional">>

\* the calls of translate_manifest: [ms, props, confs]
NamingCalls ==
    {[ms |-> ms, props |-> h, confs |-> c] :
        ms \in SeqsUpTo(SimpleDocs, MaxDocs) \cup {<<Doc(Pod, NameMyPod, SimpleSpec(Pod), FALSE)>>},
        h \in {<<>>, <<"Bidirectional">>},
        c \in {<<>>, <<Conf(PathConfigJson)>>, <<Conf(PathConfigJson), Conf(PathWebService)>>}}

PropagationCalls ==
    {[ms |-> ms, props |-> h, confs |-> c] :
        ms \in WorkloadSets, h \in SeqsUpTo(HintValues, MaxHints), c \in {<<>>, <<Conf(PathConfigJson)>>}}

ConfigCalls ==
    {[ms |-> ms, props |-> h, confs |-> c] :
        ms \in WorkloadSets, h \in {<<>>, FixedHints}, c \in SeqsUpTo(Confs, MaxConf)}

ManifestCalls == NamingCalls \cup PropagationCalls \cup ConfigCalls

\* compose units: an ordered mapping of services; the first carries the volumes
MalformedVolumes ==
    {[isMapping |-> TRUE, bind |-> Some([isMapping |-> FALSE, propagation |-> Absent])],
     [isMapping |-> TRUE, bind |-> Some([isMapping |-> TRUE, propagation |-> Absent])]}

ComposeVolumes ==
    {[isMapping |-> FALSE, bind |-> Absent],
     [isMapping |-> TRUE, bind |-> Absent],
     [isMapping |-> TRUE, bind |-> Some([isMapping |-> TRUE, propagation |-> Some("rshared")])],
     [isMapping |-> TRUE, bind |-> Some([isMapping |-> TRUE, propagation |-> Some("rslave")])],
     [isMapping |-> TRUE, bind |-> Some([isMapping |-> TRUE, propagation |-> Some("rprivate")])]}

ServiceNames == <<"db", "web", "cache", "proxy">>

ComposeService(vols) == [image |-> "x", volumes |-> vols]

RsharedVolume == [isMapping |-> TRUE, bind |-> Some([isMapping |-> TRUE, propagation |-> Some("rshared")])]

ComposeOf(n, vols) ==
    [i \in 1..n |-> [key |-> ServiceNames[i],
                     val |-> IF i = 1 THEN ComposeService(vols) ELSE ComposeService(Absent)]]

\* no service; one service with any volume list; several, the first with one or none
Composes ==
    {<<>>}
    \cup {ComposeOf(1, vols) :
            vols \in {Absent} \cup {Some(v) : v \in SeqsUpTo(ComposeVolumes, MaxHints)}
                     \cup {Some(<<v>>) : v \in MalformedVolumes}}
    \cup {ComposeOf(n, vols) : n \in 2..MaxServices, vols \in {Absent, Some(<<RsharedVolume>>)}}

\* manifest sets the converter may write for the one service
KomposeDeployment(k) ==
    Doc(Deployment, <<"d","b">>,
        Some(TemplateSpec(PodSpec(1, Some([i \in 1..k |-> PresetMount(i, FALSE)])), FALSE)), FALSE)

KomposeOutputs ==
    {<<Doc(Service, <<"d","b">>, SimpleSpec(Service), FALSE), KomposeDeployment(k)>> : k \in 0..MaxMounts}
    \cup {<<KomposeDeployment(0), KomposeDeployment(1)>>,
          <<Doc(Deployment, <<"d","b">>, Some(TemplateSpec(EmptySpec, FALSE)), FALSE)>>}

\* what a converter that fails midway may leave behind
PartialOutput == <<Doc(Service, <<"d","b">>, SimpleSpec(Service), FALSE)>>

\* the files the CLI may be pointed at
CliFiles ==
    {[kind |-> "missing", ms |-> <<>>, services |-> <<>>],
     [kind |-> "not-yaml", ms |-> <<>>, services |-> <<>>]}
    \cup {[kind |-> "manifests", ms |-> ms, services |-> <<>>] :
             ms \in (SeqsUpTo(SimpleDocs, MaxDocs) \ {<<>>}) \cup WorkloadSets}
    \cup {[kind |-> "compose", ms |-> <<>>, services |-> c] : c \in Composes}

\* ------------------------------------------------------------------ actions
Init ==
    /\ pc = "idle"
    /\ entry = "none"
    /\ run = 1
    /\ error = "none"
    /\ input = <<>>
    /\ manifests = <<>>
    /\ propagation = <<>>
    /\ configuration_data = <<>>
    /\ node_templates = <<>>
    /\ first = <<>>
    /\ compose = <<>>
    /\ tmp_exists = FALSE
    /\ out_exists = FALSE
    /\ out_content = <<>>
    /\ status = 0
    /\ kompose_runs = 0
    /\ staged_writes = 0
    /\ adt_built = FALSE
    /\ adt_written = FALSE
    /\ exit_code = -1

Raise(exc) ==
    /\ error' = exc
    /\ pc' = "raised"

\* translate_manifest(manifests, propagation, configuration_data), called directly
CallTranslateManifest ==
    /\ pc = "idle"
    /\ \E c \in ManifestCalls :
        /\ entry' = "translate_manifest"
        /\ input' = c.ms
        /\ manifests' = c.ms
        /\ propagation' = c.props
        /\ configuration_data' = c.confs
        /\ pc' = "tm_validate"
    /\ UNCHANGED <<run, error, node_templates, first, compose, tmp_exists, out_exists,
                   out_content, status, kompose_runs, staged_writes, adt_built,
                   adt_written, exit_code>>

\* translate_dict up to its call of convert_doc_to_kube or translate_manifest
TranslateDictBody(fmt, ms, services, confs) ==
    /\ configuration_data' = confs
    /\ compose' = services
    /\ IF fmt \notin {"docker-compose", "kubernetes-manifest"}
       THEN Raise("ValueError") /\ UNCHANGED <<input, manifests, propagation>>
       ELSE IF fmt = "kubernetes-manifest"
       THEN /\ input' = ms
            /\ manifests' = ms
            /\ propagation' = <<>>
            /\ pc' = "tm_validate"
            /\ UNCHANGED error
       ELSE LET r == get_container_from_compose(services) IN
            IF r.exc # "none"
            THEN Raise(r.exc) /\ UNCHANGED <<input, manifests, propagation>>
            ELSE /\ propagation' = check_bind_propagation(Lookup(services, r.name))
                 /\ pc' = "convert_stage"
                 /\ UNCHANGED <<error, input, manifests>>

CallTranslateDict ==
    /\ pc = "idle"
    /\ entry' = "translate_dict"
    /\ \/ \E c \in Composes : TranslateDictBody("docker-compose", <<>>, c, <<>>)
       \/ \E fmt \in {"kubernetes-manifest", "helm"}, ms \in WorkloadSets,
             confs \in {<<>>, <<Conf(PathConfigJson)>>} :
            TranslateDictBody(fmt, ms, <<>>, confs)
    /\ UNCHANGED <<run, node_templates, first, tmp_exists, out_exists, out_content,
                   status, kompose_runs, staged_writes, adt_built, adt_written, exit_code>>

\* cli.main -> translate(file): read the file, classify it, call translate_dict
CallMain ==
    /\ pc = "idle"
    /\ entry' = "main"
    /\ \E f \in CliFiles :
        \/ /\ f.kind = "missing"
           /\ Raise("FileNotFoundError")
           /\ UNCHANGED <<input, manifests, propagation, configuration_data, compose>>
        \/ /\ f.kind = "not-yaml"
           /\ Raise("ScannerError")
           /\ UNCHANGED <<input, manifests, propagation, configuration_data, compose>>
        \/ /\ f.kind = "compose"
           /\ TranslateDictBody("docker-compose", <<>>, f.services, <<>>)
        \/ /\ f.kind = "manifests"
           /\ TranslateDictBody("kubernetes-manifest", f.ms, <<>>, <<>>)
    /\ UNCHANGED <<run, node_templates, first, tmp_exists, out_exists, out_content,
                   status, kompose_runs, staged_writes, adt_built, adt_written, exit_code>>

\* convert_doc_to_kube: the descriptor is dumped to a NamedTemporaryFile in the cwd
ConvertStage ==
    /\ pc = "convert_stage"
    /\ tmp_exists' = TRUE
    /\ staged_writes' = staged_writes + 1
    /\ pc' = "convert_run"
    /\ UNCHANGED <<entry, run, error, input, manifests, propagation, configuration_data,
                   node_templates, first, compose, out_exists, out_content, status,
                   kompose_runs, adt_built, adt_written, exit_code>>

\* run_command(kompose convert ...), then the end of the with block, which deletes
\* the temporary file. The converter is an external process: any return code, with
\* or without an output file.
RunKompose ==
    /\ pc = "convert_run"
    /\ \E st \in {0, 1}, wrote \in BOOLEAN :
        /\ status' = st
        /\ out_exists' = (out_exists \/ wrote)
        /\ IF wrote
           THEN \E ms \in (IF st = 0 THEN KomposeOutputs ELSE {PartialOutput}) :
                    out_content' = ms
           ELSE out_content' = out_content
    /\ kompose_runs' = kompose_runs + 1
    /\ tmp_exists' = FALSE
    /\ pc' = "convert_read"
    /\ UNCHANGED <<entry, run, error, input, manifests, propagation, configuration_data,
                   node_templates, first, compose, staged_writes, adt_built, adt_written,
                   exit_code>>

\* convert_doc_to_kube after the with block: the status check, the read, the remove
ConvertRead ==
    /\ pc = "convert_read"
    /\ IF status # 0
       THEN Raise("ValueError") /\ UNCHANGED <<input, manifests, out_exists>>
       ELSE IF ~out_exists
       THEN Raise("FileNotFoundError") /\ UNCHANGED <<input, manifests, out_exists>>
       ELSE /\ input' = out_content
            /\ manifests' = out_content
            /\ out_exists' = FALSE
            /\ pc' = "tm_validate"
            /\ UNCHANGED error
    /\ UNCHANGED <<entry, run, propagation, configuration_data, node_templates, first,
                   compose, tmp_exists, out_content, status, kompose_runs, staged_writes,
                   adt_built, adt_written, exit_code>>

\* translate_manifest: the workload count
Validate ==
    /\ pc = "tm_validate"
    /\ IF count_workloads(manifests) > 1
       THEN Raise("ValueError")
       ELSE pc' = "tm_seed" /\ UNCHANGED error
    /\ UNCHANGED <<entry, run, input, manifests, propagation, configuration_data,
                   node_templates, first, compose, tmp_exists, out_exists, out_content,
                   status, kompose_runs, staged_writes, adt_built, adt_written, exit_code>>

\* translate_manifest: _get_default_adt and _add_configdata
Seed ==
    /\ pc = "tm_seed"
    /\ adt_built' = TRUE
    /\ node_templates' = _add_configdata(configuration_data, <<>>)
    /\ pc' = "tm_transform"
    /\ UNCHANGED <<entry, run, error, input, manifests, propagation, configuration_data,
                   first, compose, tmp_exists, out_exists, out_content, status,
                   kompose_runs, staged_writes, adt_written, exit_code>>

\* translate_manifest: _transform, then the return
Transform ==
    /\ pc = "tm_transform"
    /\ LET r == _transform(manifests, node_templates, propagation, configuration_data) IN
        /\ manifests' = r.ms
        /\ node_templates' = r.nt
        /\ IF r.exc # "none"
           THEN Raise(r.exc)
           ELSE pc' = "returned" /\ UNCHANGED error
    /\ UNCHANGED <<entry, run, input, propagation, configuration_data, first, compose,
                   tmp_exists, out_exists, out_content, status, kompose_runs,
                   staged_writes, adt_built, adt_written, exit_code>>

\* cli.main after translate: the output file is written on a return; ScannerError,
\* FileNotFoundError and ValueError are caught and exit with 1; any other exception
\* leaves the interpreter with a traceback and status 1
MainExit ==
    /\ entry = "main"
    /\ pc \in {"returned", "raised"}
    /\ IF pc = "returned"
       THEN adt_written' = TRUE /\ exit_code' = 0
       ELSE adt_written' = adt_written /\ exit_code' = 1
    /\ pc' = "exited"
    /\ UNCHANGED <<entry, run, error, input, manifests, propagation, configuration_data,
                   node_templates, first, compose, tmp_exists, out_exists, out_content,
                   status, kompose_runs, staged_writes, adt_built>>

\* the documents embedded in an output, in the output's order
EmbeddedDocs(nt) ==
    LET idx == {i \in 1..Len(nt) : Has(nt[i].val.inputs)}
        F[k \in 0..Len(nt)] ==
            IF k = 0 THEN <<>>
            ELSE IF k \in idx THEN Append(F[k - 1], Get(nt[k].val.inputs)) ELSE F[k - 1]
    IN F[Len(nt)]

\* a second call of translate_manifest, on the documents of the first one's output,
\* with the same hints and the same configuration entries
Refeed ==
    /\ entry = "translate_manifest"
    /\ pc = "returned"
    /\ run = 1
    /\ run' = 2
    /\ first' = node_templates
    /\ input' = EmbeddedDocs(node_templates)
    /\ manifests' = EmbeddedDocs(node_templates)
    /\ node_templates' = <<>>
    /\ adt_built' = FALSE
    /\ pc' = "tm_validate"
    /\ UNCHANGED <<entry, error, propagation, configuration_data, compose, tmp_exists,
                   out_exists, out_content, status, kompose_runs, staged_writes,
                   adt_written, exit_code>>

Next ==
    \/ CallTranslateManifest
    \/ CallTranslateDict
    \/ CallMain
    \/ ConvertStage
    \/ RunKompose
    \/ ConvertRead
    \/ Validate
    \/ Seed
    \/ Transform
    \/ MainExit
    \/ Refeed

Spec == Init /\ [][Next]_vars

\* ------------------------------------------------------- reading the results
IsWorkload(doc) == \E i \in 1..Len(WORKLOADS) : Lower(doc.kind) = WORKLOADS[i]
WorkloadCount(ms) == Cardinality({i \in 1..Len(ms) : IsWorkload(ms[i])})

\* the spec that holds the container list: the manifest's or its pod template's
PodSpecOf(doc) ==
    IF Has(doc.spec) /\ Has(Get(doc.spec).containers) THEN Get(doc.spec)
    ELSE IF Has(doc.spec) /\ Has(Get(doc.spec).template) THEN Get(Get(doc.spec).template).spec
    ELSE EmptySpec
ContainersOf(doc) == SetDefault(PodSpecOf(doc).containers)
MountsOf(container) == SetDefault(container.volumeMounts)
YieldsContainer(doc) == Len(ContainersOf(doc)) > 0
\* the workload has a first container that is not an empty mapping
HasUsableContainer(doc) == YieldsContainer(doc) /\ ~IsEmptyContainer(ContainersOf(doc)[1])

ExpectedKey(doc) == Lower(doc.metadata.name) \o <<"-">> \o Lower(doc.kind)
EmbeddedAt(nt, k) == Get(Lookup(nt, k).inputs)

\* translate_manifest has returned or raised
Finished == pc \in {"returned", "raised"}
Succeeded == pc = "returned" \/ (pc = "exited" /\ error = "none")

\* C1: a manifest set with at most one workload document translates without error
\* into exactly one node per input document plus one per configuration entry.
C1_OneNodePerInput ==
    (entry = "translate_manifest" /\ run = 1 /\ Finished /\ WorkloadCount(input) <= 1)
        => /\ pc = "returned"
           /\ Len(node_templates) = Len(input) + Len(configuration_data)

\* C2: with two or more workload documents the call raises ValueError at the count,
\* before the adt and any node template exist; the CLI, which can always go on to
\* its exit from there, exits with 1 and has written no output file.
C2_TwoWorkloadsRejected ==
    WorkloadCount(input) >= 2
        => /\ pc \in {"tm_validate", "raised", "exited"}
           /\ ~adt_built
           /\ node_templates = <<>>
           /\ pc \in {"raised", "exited"} => error = "ValueError"
           /\ ~adt_written
           /\ pc = "exited" => exit_code = 1
           /\ (entry = "main" /\ pc = "raised") => ENABLED MainExit

C2_Witness ==
    /\ entry = "main"
    /\ pc = "exited"
    /\ WorkloadCount(input) >= 2
    /\ error = "ValueError"
    /\ exit_code = 1

\* a manifest set the orchestrator accepts: at most one workload, and every workload
\* with a container
ValidManifestSet(ms) ==
    /\ Len(ms) > 0
    /\ WorkloadCount(ms) <= 1
    /\ \A i \in 1..Len(ms) : IsWorkload(ms[i]) => HasUsableContainer(ms[i])

\* C3: a compose unit with two or more services is rejected with ValueError before
\* any descriptor is staged and before the converter runs; one with exactly one
\* service translates without error when the converter returns 0 and wrote a valid
\* manifest set.
C3_ComposeCardinality ==
    /\ Len(compose) >= 2
        => /\ pc \in {"raised", "exited"}
           /\ error = "ValueError"
           /\ staged_writes = 0
           /\ kompose_runs = 0
           /\ ~tmp_exists
           /\ ~out_exists
    /\ (/\ Len(compose) = 1
        /\ pc \in {"returned", "raised", "exited"}
        /\ status = 0
        /\ ValidManifestSet(out_content))
        => /\ error = "none"
           /\ kompose_runs = 1
           /\ staged_writes = 1

C3_Witness ==
    /\ entry = "translate_dict"
    /\ Len(compose) = 1
    /\ pc = "returned"
    /\ kompose_runs = 1
    /\ ValidManifestSet(out_content)
    /\ Len(node_templates) = 2

\* C4: every node that embeds a manifest is keyed by lower(metadata.name) + "-" +
\* lower(kind) of that manifest, and after a successful call the key of every input
\* document that is not a workload, or is one with a usable container, is in the
\* output, whatever its position, its other fields, the hints and the configuration
\* entries; kind Pod with name my-pod-name gives my-pod-name-pod.
C4_NodeNames ==
    /\ \A i \in 1..Len(node_templates) :
          Has(node_templates[i].val.inputs)
              => node_templates[i].key = ExpectedKey(Get(node_templates[i].val.inputs))
    /\ Succeeded
        => \A i \in 1..Len(input) :
              (IsWorkload(input[i]) => HasUsableContainer(input[i]))
              => /\ ExpectedKey(input[i]) \in Keys(node_templates)
                 /\ Has(Lookup(node_templates, ExpectedKey(input[i])).inputs)
                 /\ (input[i].kind = Pod /\ input[i].metadata.name = NameMyPod)
                       => <<"m","y","-","p","o","d","-","n","a","m","e","-","p","o","d">>
                             \in Keys(node_templates)

C4_Witness ==
    /\ pc = "returned"
    /\ Len(input) = 1
    /\ input[1].kind = Pod
    /\ input[1].metadata.name = NameMyPod
    /\ configuration_data # <<>>
    /\ <<"m","y","-","p","o","d","-","n","a","m","e","-","p","o","d">> \in Keys(node_templates)

HasBookkeeping(doc) ==
    \/ Has(doc.metadata.annotations)
    \/ Has(doc.metadata.creationTimestamp)
    \/ Has(doc.status)
    \/ /\ Has(doc.spec)
       /\ Has(Get(doc.spec).template)
       /\ \/ Has(Get(Get(doc.spec).template).metadata.annotations)
          \/ Has(Get(Get(doc.spec).template).metadata.creationTimestamp)

\* C5: no document embedded in a node template carries metadata.annotations,
\* metadata.creationTimestamp, status, or the pod template's metadata.annotations
\* or metadata.creationTimestamp.
C5_EphemeralStripped ==
    \A i \in 1..Len(node_templates) :
        Has(node_templates[i].val.inputs) => ~HasBookkeeping(Get(node_templates[i].val.inputs))

\* C6: after a successful call with a workload document, every configuration entry
\* has a config-type node under its sanitized name and every container of the
\* workload has a mount {name, mountPath: file_path, subPath: basename} for it.
C6_EveryContainerMounted ==
    (entry = "translate_manifest" /\ run = 1 /\ pc = "returned")
        => \A i \in 1..Len(input), k \in 1..Len(configuration_data) :
              LET conf == configuration_data[k]
                  nm == Sanitize(PathName(conf.file_path))
                  out == EmbeddedAt(node_templates, ExpectedKey(input[i]))
              IN (IsWorkload(input[i]) /\ HasUsableContainer(input[i]))
                    => /\ nm \in Keys(node_templates)
                       /\ Lookup(node_templates, nm).type = ConfigType
                       /\ \A j \in 1..Len(ContainersOf(out)) :
                            \E m \in 1..Len(MountsOf(ContainersOf(out)[j])) :
                                LET mount == MountsOf(ContainersOf(out)[j])[m] IN
                                /\ mount.name = nm
                                /\ mount.mountPath = conf.file_path
                                /\ mount.subPath = Some(OsBasename(conf.file_path))

\* the hint the compose volume stands for
ExpectedHint(volume) ==
    IF volume.isMapping /\ Has(volume.bind) /\ Get(volume.bind).isMapping
       /\ Has(Get(volume.bind).propagation)
    THEN CASE Get(Get(volume.bind).propagation) = "rshared" -> "Bidirectional"
           [] Get(Get(volume.bind).propagation) = "rslave" -> "HostToContainer"
           [] OTHER -> PyNone
    ELSE PyNone

ComposeVolumesOf(services) == SetDefault(services[1].val.volumes)

\* C7: the hints are one per compose volume, in order (rshared -> Bidirectional,
\* rslave -> HostToContainer, anything else -> none); after a successful transform
\* the workload's first container has, at every index of its original mounts, the
\* hint of that index as mountPropagation when there is one and it is not none, and
\* the original mount otherwise; mounts added past the original ones carry no
\* mountPropagation.
C7_PositionalPropagation ==
    /\ (Len(compose) = 1 /\ pc # "idle")
        => /\ Len(propagation) = Len(ComposeVolumesOf(compose))
           /\ \A i \in 1..Len(propagation) :
                 propagation[i] = ExpectedHint(ComposeVolumesOf(compose)[i])
    /\ (run = 1 /\ Succeeded)
        => \A d \in 1..Len(input) :
              (IsWorkload(input[d]) /\ HasUsableContainer(input[d]))
                 => LET before == MountsOf(ContainersOf(input[d])[1])
                        after == MountsOf(ContainersOf(EmbeddedAt(node_templates, ExpectedKey(input[d])))[1])
                    IN /\ Len(after) >= Len(before)
                       /\ \A i \in 1..Len(before) :
                            IF i <= Len(propagation) /\ propagation[i] # PyNone
                            THEN after[i] = [before[i] EXCEPT !.mountPropagation = Some(propagation[i])]
                            ELSE after[i] = before[i]
                       /\ \A i \in (Len(before) + 1)..Len(after) :
                            ~Has(after[i].mountPropagation)

C7_Witness ==
    /\ pc = "returned"
    /\ Len(compose) = 1
    /\ Len(propagation) = 2
    /\ propagation[1] = "Bidirectional"
    /\ propagation[2] = PyNone
    /\ \E d \in 1..Len(input) :
          /\ IsWorkload(input[d])
          /\ LET after == MountsOf(ContainersOf(EmbeddedAt(node_templates, ExpectedKey(input[d])))[1])
             IN /\ Len(after) = 1
                /\ after[1].mountPropagation = Some("Bidirectional")

\* C8: once convert_doc_to_kube has returned or raised, neither the staged
\* descriptor nor the staged output file exists.
C8_StagedFilesRemoved ==
    (kompose_runs >= 1 /\ pc \notin {"convert_run", "convert_read"})
        => (~tmp_exists /\ ~out_exists)

\* C9 as stated: the output of a successful call, fed back with the same hints and
\* the same configuration entries, translates into the same node templates.
C9_Idempotent ==
    (run = 2 /\ Finished) => (pc = "returned" /\ node_templates = first)

\* C9 as amended: the same, for calls without configuration entries or without a
\* workload document.
C9_IdempotentWithoutInjection ==
    (run = 2 /\ Finished /\ (configuration_data = <<>> \/ WorkloadCount(input) = 0))
        => (pc = "returned" /\ node_templates = first)

C9_Witness ==
    /\ run = 2
    /\ pc = "returned"
    /\ configuration_data = <<>>
    /\ Len(propagation) = 2
    /\ propagation[1] = "Bidirectional"
    /\ node_templates = first
    /\ \E d \in 1..Len(input) :
          /\ IsWorkload(input[d])
          /\ Len(MountsOf(ContainersOf(input[d])[1])) = 2
          /\ MountsOf(ContainersOf(input[d])[1])[1].mountPropagation = Some("Bidirectional")

\* C10: a workload whose spec yields no container raises nothing and is emitted
\* unchanged under its node name.
C10_BareWorkloadEmitted ==
    (entry = "translate_manifest" /\ run = 1 /\ Finished /\ WorkloadCount(input) = 1)
        => \A d \in 1..Len(input) :
              (IsWorkload(input[d]) /\ ~YieldsContainer(input[d]))
                 => /\ pc = "returned"
                    /\ ExpectedKey(input[d]) \in Keys(node_templates)
                    /\ Lookup(node_templates, ExpectedKey(input[d])).inputs = Some(input[d])

====
